---------------------------- MODULE Spec2Model ----------------------------
(***************************************************************************)
(* A model of tokenlib: signed authentication tokens (TokenManager), the   *)
(* HKDF engine, the token codec, the constant-time comparator and the      *)
(* Secrets store with its CSV file.                                        *)
(*                                                                         *)
(* Bytes are naturals 0..255 and byte strings are sequences of them; text  *)
(* is a sequence of code points.  Time is counted in whole clock ticks.    *)
(* hmac.new(...).digest() is a library primitive: it is modelled by a      *)
(* keyed digest of the hash function's digest size (hmac_digest below),    *)
(* which stands for a collision-free MAC on the inputs explored.           *)
(***************************************************************************)
EXTENDS Integers, Sequences, FiniteSets, TLC

(***************************************************************************)
(* Small helpers on byte strings.                                          *)
(***************************************************************************)
Repeat(b, n) == [i \in 1..n |-> b]

Take(s, n) == SubSeq(s, 1, IF n < Len(s) THEN n ELSE Len(s))

\* Python's s[:-k] for k > 0: everything but the last k items (empty when
\* the sequence has k items or fewer).
DropLast(s, k) == SubSeq(s, 1, Len(s) - k)

\* Python's s[-k:] for k > 0: the last k items (all of s when it is shorter).
TakeLast(s, k) == SubSeq(s, (IF Len(s) > k THEN Len(s) - k ELSE 0) + 1, Len(s))

RECURSIVE Flatten(_)
Flatten(ss) == IF ss = <<>> THEN <<>> ELSE Head(ss) \o Flatten(Tail(ss))

(***************************************************************************)
(* utils.py: byte_to_int / int_to_byte (the Python 3 branch).              *)
(***************************************************************************)
byte_to_int(x) == x

int_to_byte(x) == <<x>>

RECURSIVE Xor(_, _)
Xor(a, b) ==
    IF a = 0 THEN b
    ELSE IF b = 0 THEN a
    ELSE 2 * Xor(a \div 2, b \div 2) + ((a + b) % 2)

(***************************************************************************)
(* utils.py: strings_differ.  zip() pairs the bytes position by position;  *)
(* invalid_bits accumulates the sum of the per-byte XORs.                  *)
(***************************************************************************)
RECURSIVE invalid_bits(_, _, _)
invalid_bits(string1, string2, i) ==
    IF i > Len(string1) \/ i > Len(string2) THEN 0
    ELSE Xor(byte_to_int(string1[i]), byte_to_int(string2[i]))
         + invalid_bits(string1, string2, i + 1)

\* A comparator that forgets the length check and looks at the common
\* prefix only.
strings_differ_nolen(string1, string2) ==
    invalid_bits(string1, string2, 1) /= 0

strings_differ(string1, string2) ==
    IF Len(string1) /= Len(string2) THEN TRUE
    ELSE invalid_bits(string1, string2, 1) /= 0

(***************************************************************************)
(* The hash functions a manager can be built with (hashlib, by name), and  *)
(* hashmod().digest_size of each.                                          *)
(***************************************************************************)
digest_size(hashmod) ==
    CASE hashmod = "md5" -> 16
      [] hashmod = "sha1" -> 20
      [] hashmod = "sha256" -> 32

(***************************************************************************)
(* hmac.new(key, msg, hashmod).digest().  The digest size, the two         *)
(* lengths, the key and the message are digested twice as a polynomial     *)
(* modulo the prime 46337, with multipliers 257 and 263; block j of the    *)
(* digest is h1 + j * h2 + j written as two bytes, and the digest is the   *)
(* first digest_size bytes of the blocks.  Two digests are equal only if   *)
(* h1 and h2 both are, and h1 differs whenever the messages differ in one  *)
(* byte, or in two neighbouring bytes by less than 16 and 256.             *)
(***************************************************************************)
\* <<the digest of s[lo..hi], mult^(hi - lo + 1)>>, by halves.
RECURSIVE PolyDigest(_, _, _, _)
PolyDigest(s, lo, hi, mult) ==
    IF lo > hi THEN <<0, 1>>
    ELSE IF lo = hi THEN <<(s[lo] + 1) % 46337, mult % 46337>>
    ELSE LET mid == (lo + hi) \div 2
             a   == PolyDigest(s, lo, mid, mult)
             b   == PolyDigest(s, mid + 1, hi, mult)
         IN  <<(a[1] * b[2] + b[1]) % 46337, (a[2] * b[2]) % 46337>>

hmac_digest(key, msg, hashmod) ==
    LET ds == digest_size(hashmod)
        s  == <<ds, Len(key), Len(msg)>> \o key \o msg
        h1 == PolyDigest(s, 1, Len(s), 257)[1]
        h2 == PolyDigest(s, 1, Len(s), 263)[1]
        block(j) == (h1 + j * h2 + j) % 46337
    IN  [k \in 1..ds |-> IF k % 2 = 1 THEN block((k + 1) \div 2) \div 256
                         ELSE block((k + 1) \div 2) % 256]

(***************************************************************************)
(* utils.py: HKDF_extract, HKDF_expand, HKDF (RFC 5869).  The salt is     *)
(* None or PyBytes(b); secret, info and the result are byte strings.  A    *)
(* failed assertion is the result AssertionError.                          *)
(***************************************************************************)
None == [t |-> "None", v |-> <<>>]

PyBytes(b) == [t |-> "bytes", v |-> b]

AssertionError == [err |-> "AssertionError", bytes |-> <<>>]

HKDF_extract(salt, IKM, hashmod) ==
    LET salt2 == IF salt = None THEN Repeat(0, digest_size(hashmod)) ELSE salt.v
    IN  hmac_digest(salt2, IKM, hashmod)

\* math.ceil(L * 1.0 / digest_size)
CeilDiv(L, d) == (L + d - 1) \div d

\* The loop of HKDF_expand over the iterations lo..hi, T being the block of
\* iteration lo - 1: the blocks of these iterations, joined.  The range is
\* split in halves, the second half starting from the last block of the
\* first, so that 255 iterations nest only a few calls.
RECURSIVE HKDF_expand_loop(_, _, _, _, _, _)
\* Lines 57-58 without the block before.
HKDF_expand_block_unchained(PRK, info, hashmod, i, T) ==
    hmac_digest(PRK, info \o int_to_byte(i), hashmod)

\* Lines 57-58: the block of iteration i.
HKDF_expand_block(PRK, info, hashmod, i, T) ==
    hmac_digest(PRK, T \o info \o int_to_byte(i), hashmod)

\* The iterations mid+1..hi after the iterations up to mid gave output.
HKDF_expand_rest(PRK, info, hashmod, mid, hi, output) ==
    output \o HKDF_expand_loop(PRK, info, hashmod, mid + 1, hi,
                               TakeLast(output, digest_size(hashmod)))

HKDF_expand_loop(PRK, info, hashmod, lo, hi, T) ==
    IF lo > hi THEN <<>>
    ELSE IF lo = hi THEN HKDF_expand_block(PRK, info, hashmod, lo, T)
    ELSE HKDF_expand_rest(PRK, info, hashmod, (lo + hi) \div 2, hi,
                          HKDF_expand_loop(PRK, info, hashmod, lo, (lo + hi) \div 2, T))

HKDF_expand(PRK, info, L, hashmod) ==
    LET N == CeilDiv(L, digest_size(hashmod))
    IN  IF ~(N <= 255) THEN AssertionError
        ELSE [err |-> "",
              bytes |-> Take(HKDF_expand_loop(PRK, info, hashmod, 1, N, <<>>), L)]

HKDF(secret, salt, info, size, hashmod) ==
    LET PRK == HKDF_extract(salt, secret, hashmod)
    IN  HKDF_expand(PRK, info, size, hashmod)

(***************************************************************************)
(* utils.py: encode_token_bytes / decode_token_bytes, that is              *)
(* base64.urlsafe_b64encode and base64.urlsafe_b64decode on ASCII text.    *)
(* The decoder is the non-strict one: it skips characters outside the      *)
(* alphabet, takes '+' and '/' for '-' and '_', stops at a completed pad   *)
(* sequence and fails when the data characters do not fill a quad.         *)
(***************************************************************************)
B64Char(v) ==
    IF v < 26 THEN 65 + v
    ELSE IF v < 52 THEN 97 + (v - 26)
    ELSE IF v < 62 THEN 48 + (v - 52)
    ELSE IF v = 62 THEN 45
    ELSE 95

\* The 6-bit value of a character, or -1 for a character outside the alphabet.
B64Val(c) ==
    IF c >= 65 /\ c <= 90 THEN c - 65
    ELSE IF c >= 97 /\ c <= 122 THEN c - 97 + 26
    ELSE IF c >= 48 /\ c <= 57 THEN c - 48 + 52
    ELSE IF c = 45 \/ c = 43 THEN 62
    ELSE IF c = 95 \/ c = 47 THEN 63
    ELSE -1

\* base64.urlsafe_b64encode: the k-th character of the encoding of data.
b64encode(data) ==
    LET n == Len(data)
        byte(i) == IF i <= n THEN data[i] ELSE 0
        char(k) ==
            LET b == 3 * ((k - 1) \div 4) + 1
                p == (k - 1) % 4
            IN  IF p = 0 THEN B64Char(byte(b) \div 4)
                ELSE IF p = 1 THEN B64Char((byte(b) % 4) * 16 + byte(b + 1) \div 16)
                ELSE IF p = 2 THEN
                    IF b + 1 > n THEN 61
                    ELSE B64Char((byte(b + 1) % 16) * 4 + byte(b + 2) \div 64)
                ELSE IF b + 2 > n THEN 61 ELSE B64Char(byte(b + 2) % 64)
    IN  [k \in 1..(4 * ((n + 2) \div 3)) |-> char(k)]

encode_token_bytes(data) == b64encode(data)

DecodeError == [ok |-> FALSE, bytes |-> <<>>]

\* base64.urlsafe_b64decode.  The decoder reads s from the left, counting
\* the data characters of the current quad (quad_pos) and, from the third
\* place of a quad on, the pad characters since the last data character
\* (pads); it stops at the pad that completes the quad, and fails at the
\* end of s inside a quad.
b64decode(s) ==
    LET n == Len(s)
        IsData(c) == B64Val(c) >= 0
        DataBefore(i) == {j \in 1..(i - 1) : IsData(s[j])}
        quad_pos(i) == Cardinality(DataBefore(i)) % 4
        last(i) == IF DataBefore(i) = {} THEN 0
                   ELSE CHOOSE j \in DataBefore(i) : \A k \in DataBefore(i) : k <= j
        pads(i) == Cardinality({j \in (last(i) + 1)..(i - 1) : s[j] = 61})
        Stops == {i \in 1..n : s[i] = 61 /\ quad_pos(i) >= 2
                               /\ quad_pos(i) + pads(i) + 1 >= 4}
        stop == IF Stops = {} THEN n + 1
                ELSE CHOOSE i \in Stops : \A k \in Stops : i <= k
        read == SelectSeq(SubSeq(s, 1, stop - 1), IsData)
        v(c) == B64Val(read[c])
        m == Len(read)
        byte(k) ==
            LET c == (8 * (k - 1)) \div 6 + 1
                r == (8 * (k - 1)) % 6
            IN  IF r = 0 THEN v(c) * 4 + v(c + 1) \div 16
                ELSE IF r = 2 THEN (v(c) % 16) * 16 + v(c + 1) \div 4
                ELSE (v(c) % 4) * 64 + v(c + 1)
    IN  IF Stops = {} /\ m % 4 /= 0 THEN DecodeError
        ELSE [ok |-> TRUE, bytes |-> [k \in 1..((m * 6) \div 8) |-> byte(k)]]

\* data.encode("ascii") fails on a character above 127 (UnicodeEncodeError,
\* a ValueError); base64 reports its failures as binascii.Error (a ValueError).
decode_token_bytes(data) ==
    IF \E i \in 1..Len(data) : data[i] > 127 THEN DecodeError
    ELSE b64decode(data)

(***************************************************************************)
(* Python values as json sees them.  A value is a record [t, v]: t is the  *)
(* Python type, v a sequence holding the content: the code points of a     *)
(* str, <<n>> for the int n, the literal text of a float, <<b>> for a      *)
(* bool, the items of a list, the <<key, value>> pairs of a dict in        *)
(* insertion order.  None is defined above.                                *)
(***************************************************************************)
PyStr(cps) == [t |-> "str", v |-> cps]

PyInt(n) == [t |-> "int", v |-> <<n>>]

PyFloat(lexeme) == [t |-> "float", v |-> lexeme]

PyBool(b) == [t |-> "bool", v |-> <<b>>]

PyList(items) == [t |-> "list", v |-> items]

PyDict(pairs) == [t |-> "dict", v |-> pairs]

\* key in d
DictHas(d, key) == \E i \in 1..Len(d.v) : d.v[i][1] = key

\* d[key], for a key of d
DictGet(d, key) == d.v[CHOOSE i \in 1..Len(d.v) : d.v[i][1] = key][2]

\* d[key] = val: a new key goes last, an old key keeps its place.
DictSet(d, key, val) ==
    IF DictHas(d, key)
    THEN PyDict([i \in 1..Len(d.v) |->
                    IF d.v[i][1] = key THEN <<key, val>> ELSE d.v[i]])
    ELSE PyDict(Append(d.v, <<key, val>>))

DictKeys(d) == {d.v[i][1] : i \in 1..Len(d.v)}

(***************************************************************************)
(* bytes.decode("utf8") and str.encode("utf8").                            *)
(***************************************************************************)
IsCont(s, i) == i <= Len(s) /\ s[i] >= 128 /\ s[i] <= 191

In(s, i, lo, hi) == i <= Len(s) /\ s[i] >= lo /\ s[i] <= hi

TextError == [ok |-> FALSE, text |-> <<>>]

RECURSIVE utf8_decode(_, _, _)
utf8_decode(b, i, out) ==
    IF \A k \in i..Len(b) : b[k] < 128
    THEN [ok |-> TRUE, text |-> out \o SubSeq(b, i, Len(b))]
    ELSE LET c == b[i] IN
        IF c < 128 THEN utf8_decode(b, i + 1, Append(out, c))
        ELSE IF c >= 194 /\ c <= 223 /\ IsCont(b, i + 1) THEN
            utf8_decode(b, i + 2, Append(out, (c - 192) * 64 + (b[i + 1] - 128)))
        ELSE IF c >= 224 /\ c <= 239 /\ IsCont(b, i + 2)
                /\ In(b, i + 1, IF c = 224 THEN 160 ELSE 128,
                                IF c = 237 THEN 159 ELSE 191) THEN
            utf8_decode(b, i + 3, Append(out,
                (c - 224) * 4096 + (b[i + 1] - 128) * 64 + (b[i + 2] - 128)))
        ELSE IF c >= 240 /\ c <= 244 /\ IsCont(b, i + 2) /\ IsCont(b, i + 3)
                /\ In(b, i + 1, IF c = 240 THEN 144 ELSE 128,
                                IF c = 244 THEN 143 ELSE 191) THEN
            utf8_decode(b, i + 4, Append(out,
                (c - 240) * 262144 + (b[i + 1] - 128) * 4096
                + (b[i + 2] - 128) * 64 + (b[i + 3] - 128)))
        ELSE TextError

\* json.dumps escapes everything outside ASCII, so its output encodes to
\* UTF-8 byte for byte.
utf8_encode(text) == text

\* str.encode("ascii"): UnicodeEncodeError (a ValueError) on a code point
\* above 127.
IsAscii(text) == \A i \in 1..Len(text) : text[i] <= 127

(***************************************************************************)
(* json.dumps with its defaults: ensure_ascii, ", " and ": " separators.   *)
(***************************************************************************)
HexDigit(d) == IF d < 10 THEN 48 + d ELSE 87 + d

\* \uXXXX
Hex4(n) == <<92, 117, HexDigit(n \div 4096), HexDigit((n \div 256) % 16),
             HexDigit((n \div 16) % 16), HexDigit(n % 16)>>

EscapeChar(c) ==
    IF c = 34 THEN <<92, 34>>
    ELSE IF c = 92 THEN <<92, 92>>
    ELSE IF c = 10 THEN <<92, 110>>
    ELSE IF c = 13 THEN <<92, 114>>
    ELSE IF c = 9 THEN <<92, 116>>
    ELSE IF c = 8 THEN <<92, 98>>
    ELSE IF c = 12 THEN <<92, 102>>
    ELSE IF c >= 32 /\ c <= 126 THEN <<c>>
    ELSE IF c < 65536 THEN Hex4(c)
    ELSE Hex4(55296 + (c - 65536) \div 1024) \o Hex4(56320 + ((c - 65536) % 1024))

dumps_str(cps) == <<34>> \o Flatten([i \in 1..Len(cps) |-> EscapeChar(cps[i])]) \o <<34>>

RECURSIVE Digits(_)
Digits(n) ==
    IF n < 0 THEN <<45>> \o Digits(-n)
    ELSE IF n < 10 THEN <<48 + n>>
    ELSE Digits(n \div 10) \o <<48 + (n % 10)>>

\* ", ".join(parts)
RECURSIVE JoinComma(_)
JoinComma(parts) ==
    IF parts = <<>> THEN <<>>
    ELSE IF Len(parts) = 1 THEN parts[1]
    ELSE parts[1] \o <<44, 32>> \o JoinComma(Tail(parts))

RECURSIVE json_dumps(_)
json_dumps(x) ==
    CASE x.t = "None" -> <<110, 117, 108, 108>>
      [] x.t = "bool" -> IF x.v[1] THEN <<116, 114, 117, 101>>
                                   ELSE <<102, 97, 108, 115, 101>>
      [] x.t = "int" -> Digits(x.v[1])
      [] x.t = "float" -> x.v
      [] x.t = "str" -> dumps_str(x.v)
      [] x.t = "list" ->
            <<91>> \o JoinComma([i \in 1..Len(x.v) |-> json_dumps(x.v[i])]) \o <<93>>
      [] x.t = "dict" ->
            <<123>> \o JoinComma([i \in 1..Len(x.v) |->
                         dumps_str(x.v[i][1]) \o <<58, 32>> \o json_dumps(x.v[i][2])])
            \o <<125>>

(***************************************************************************)
(* json.loads: the decoder of the json module, on text.                    *)
(***************************************************************************)
ParseError == [ok |-> FALSE, val |-> None, pos |-> 0]

Parsed(val, pos) == [ok |-> TRUE, val |-> val, pos |-> pos]

IsDigit(s, i) == i <= Len(s) /\ s[i] >= 48 /\ s[i] <= 57

IsWS(s, i) == i <= Len(s) /\ s[i] \in {32, 9, 10, 13}

Match(s, i, lit) ==
    i + Len(lit) - 1 <= Len(s) /\ SubSeq(s, i, i + Len(lit) - 1) = lit

RECURSIVE SkipWS(_, _)
SkipWS(s, i) == IF IsWS(s, i) THEN SkipWS(s, i + 1) ELSE i

RECURSIVE SkipDigits(_, _)
SkipDigits(s, i) == IF IsDigit(s, i) THEN SkipDigits(s, i + 1) ELSE i

\* The value of the hex digit at s[i], or -1.
HexVal(s, i) ==
    IF i > Len(s) THEN -1
    ELSE IF s[i] >= 48 /\ s[i] <= 57 THEN s[i] - 48
    ELSE IF s[i] >= 97 /\ s[i] <= 102 THEN s[i] - 87
    ELSE IF s[i] >= 65 /\ s[i] <= 70 THEN s[i] - 55
    ELSE -1

\* The value of the four hex digits from s[i] on, or -1.
Hex4Val(s, i) ==
    IF \E k \in 0..3 : HexVal(s, i + k) < 0 THEN -1
    ELSE HexVal(s, i) * 4096 + HexVal(s, i + 1) * 256
         + HexVal(s, i + 2) * 16 + HexVal(s, i + 3)

\* The character a one-letter escape stands for, or -1.
Unescape(c) ==
    CASE c = 34 -> 34
      [] c = 92 -> 92
      [] c = 47 -> 47
      [] c = 98 -> 8
      [] c = 102 -> 12
      [] c = 110 -> 10
      [] c = 114 -> 13
      [] c = 116 -> 9
      [] OTHER -> -1

\* scanstring: s[i] is the first character after the opening quote.
RECURSIVE ParseString(_, _, _)
\* A \uXXXX escape of value u at s[i], lo the value of the four hex digits
\* after the \u that may follow it.
ParseStringU(s, i, out, u, lo) ==
    IF u < 0 THEN ParseError
    ELSE IF u >= 55296 /\ u <= 56319 /\ Match(s, i + 6, <<92, 117>>)
            /\ lo >= 56320 /\ lo <= 57343
    THEN ParseString(s, i + 12, Append(out, 65536 + (u - 55296) * 1024 + (lo - 56320)))
    ELSE ParseString(s, i + 6, Append(out, u))

ParseString(s, i, out) ==
    IF i > Len(s) THEN ParseError
    ELSE IF s[i] = 34 THEN Parsed(PyStr(out), i + 1)
    ELSE IF s[i] < 32 THEN ParseError
    ELSE IF s[i] /= 92 THEN ParseString(s, i + 1, Append(out, s[i]))
    ELSE IF i + 1 > Len(s) THEN ParseError
    ELSE IF s[i + 1] /= 117 THEN
        IF Unescape(s[i + 1]) < 0 THEN ParseError
        ELSE ParseString(s, i + 2, Append(out, Unescape(s[i + 1])))
    ELSE ParseStringU(s, i, out, Hex4Val(s, i + 2), Hex4Val(s, i + 8))

RECURSIVE IntOf(_, _, _, _)
IntOf(s, i, j, acc) ==
    IF i >= j THEN acc ELSE IntOf(s, i + 1, j, acc * 10 + (s[i] - 48))

\* A number: -?(0|[1-9][0-9]*)(\.[0-9]+)?([eE][-+]?[0-9]+)?, an int
\* without fraction and exponent and a float with either.  d0 is where the
\* digits start, iend, fend and eend where the integer part, the fraction
\* and the exponent end, e0 where the digits of the exponent start.
NumberOf(s, i, d0, iend, eend) ==
    IF iend = 0 THEN ParseError
    ELSE IF eend = iend THEN
        Parsed(PyInt((IF d0 > i THEN -1 ELSE 1) * IntOf(s, d0, iend, 0)), iend)
    ELSE Parsed(PyFloat(SubSeq(s, i, eend - 1)), eend)

ExpEnd(s, fend, e0) == IF e0 > 0 /\ IsDigit(s, e0) THEN SkipDigits(s, e0) ELSE fend

ExpStart(s, fend) ==
    IF fend > 0 /\ fend <= Len(s) /\ s[fend] \in {101, 69}
    THEN (IF fend + 1 <= Len(s) /\ s[fend + 1] \in {43, 45} THEN fend + 2 ELSE fend + 1)
    ELSE 0

FracEnd(s, iend) ==
    IF iend > 0 /\ iend <= Len(s) /\ s[iend] = 46 /\ IsDigit(s, iend + 1)
    THEN SkipDigits(s, iend + 1) ELSE iend

IntEnd(s, d0) ==
    IF ~IsDigit(s, d0) THEN 0 ELSE IF s[d0] = 48 THEN d0 + 1 ELSE SkipDigits(s, d0)

ParseNumberFrac(s, i, d0, iend, fend) ==
    NumberOf(s, i, d0, iend, ExpEnd(s, fend, ExpStart(s, fend)))

ParseNumberInt(s, i, d0, iend) == ParseNumberFrac(s, i, d0, iend, FracEnd(s, iend))

ParseNumberSign(s, i, d0) == ParseNumberInt(s, i, d0, IntEnd(s, d0))

ParseNumber(s, i) ==
    ParseNumberSign(s, i, IF i <= Len(s) /\ s[i] = 45 THEN i + 1 ELSE i)

RECURSIVE ParseValue(_, _)
RECURSIVE ParseObject(_, _, _)
RECURSIVE ParseArray(_, _, _)

\* After a member: '}' ends the object d, ',' brings the next member.
ParseObjectNext(s, d, e) ==
    IF e > Len(s) THEN ParseError
    ELSE IF s[e] = 125 THEN Parsed(d, e + 1)
    ELSE IF s[e] /= 44 THEN ParseError
    ELSE ParseObject(s, SkipWS(s, e + 1), d)

ParseObjectValue(s, d, k, val) ==
    IF ~val.ok THEN ParseError
    ELSE ParseObjectNext(s, DictSet(d, k.val.v, val.val), SkipWS(s, val.pos))

ParseObjectColon(s, d, k, c) ==
    IF ~(c <= Len(s) /\ s[c] = 58) THEN ParseError
    ELSE ParseObjectValue(s, d, k, ParseValue(s, SkipWS(s, c + 1)))

ParseObjectKey(s, d, k) ==
    IF ~k.ok THEN ParseError ELSE ParseObjectColon(s, d, k, SkipWS(s, k.pos))

\* The members of an object from the key at s[i] on; d holds those read.
ParseObject(s, i, d) ==
    IF ~(i <= Len(s) /\ s[i] = 34) THEN ParseError
    ELSE ParseObjectKey(s, d, ParseString(s, i + 1, <<>>))

\* After an item: ']' ends the array, ',' brings the next item.
ParseArrayNext(s, items, e) ==
    IF e > Len(s) THEN ParseError
    ELSE IF s[e] = 93 THEN Parsed(PyList(items), e + 1)
    ELSE IF s[e] /= 44 THEN ParseError
    ELSE ParseArray(s, SkipWS(s, e + 1), items)

ParseArrayItem(s, items, val) ==
    IF ~val.ok THEN ParseError
    ELSE ParseArrayNext(s, Append(items, val.val), SkipWS(s, val.pos))

\* The items of an array from the value at s[i] on.
ParseArray(s, i, items) == ParseArrayItem(s, items, ParseValue(s, i))

\* s[j] is the first character after '{' and white space.
ParseObjectOpen(s, j) ==
    IF j <= Len(s) /\ s[j] = 125 THEN Parsed(PyDict(<<>>), j + 1)
    ELSE ParseObject(s, j, PyDict(<<>>))

\* s[j] is the first character after '[' and white space.
ParseArrayOpen(s, j) ==
    IF j <= Len(s) /\ s[j] = 93 THEN Parsed(PyList(<<>>), j + 1)
    ELSE ParseArray(s, j, <<>>)

\* scan_once
ParseValue(s, i) ==
    IF i > Len(s) THEN ParseError
    ELSE IF s[i] = 34 THEN ParseString(s, i + 1, <<>>)
    ELSE IF s[i] = 123 THEN ParseObjectOpen(s, SkipWS(s, i + 1))
    ELSE IF s[i] = 91 THEN ParseArrayOpen(s, SkipWS(s, i + 1))
    ELSE IF Match(s, i, <<110, 117, 108, 108>>) THEN Parsed(None, i + 4)
    ELSE IF Match(s, i, <<116, 114, 117, 101>>) THEN Parsed(PyBool(TRUE), i + 4)
    ELSE IF Match(s, i, <<102, 97, 108, 115, 101>>) THEN Parsed(PyBool(FALSE), i + 5)
    ELSE IF Match(s, i, <<78, 97, 78>>) THEN Parsed(PyFloat(<<78, 97, 78>>), i + 3)
    ELSE IF Match(s, i, <<73, 110, 102, 105, 110, 105, 116, 121>>) THEN
        Parsed(PyFloat(SubSeq(s, i, i + 7)), i + 8)
    ELSE IF Match(s, i, <<45, 73, 110, 102, 105, 110, 105, 116, 121>>) THEN
        Parsed(PyFloat(SubSeq(s, i, i + 8)), i + 9)
    ELSE ParseNumber(s, i)

\* json.loads(text): one value, surrounded by whitespace only.
json_loads_end(text, r) ==
    IF r.ok /\ SkipWS(text, r.pos) = Len(text) + 1
    THEN [ok |-> TRUE, val |-> r.val]
    ELSE [ok |-> FALSE, val |-> None]

json_loads(text) == json_loads_end(text, ParseValue(text, SkipWS(text, 1)))


(***************************************************************************)
(* tokenlib/__init__.py: the module-level defaults and the TokenManager.   *)
(***************************************************************************)
DEFAULT_TIMEOUT == 5 * 60

DEFAULT_HASHMOD == "sha256"

\* b"services.mozilla.com/tokenlib/v1/signing"
HKDF_INFO_SIGNING ==
    <<115, 101, 114, 118, 105, 99, 101, 115, 46, 109, 111, 122, 105, 108, 108, 97,
      46, 99, 111, 109, 47, 116, 111, 107, 101, 110, 108, 105, 98, 47, 118, 49, 47,
      115, 105, 103, 110, 105, 110, 103>>

\* b"services.mozilla.com/tokenlib/v1/derive/"
HKDF_INFO_DERIVE ==
    <<115, 101, 114, 118, 105, 99, 101, 115, 46, 109, 111, 122, 105, 108, 108, 97,
      46, 99, 111, 109, 47, 116, 111, 107, 101, 110, 108, 105, 98, 47, 118, 49, 47,
      100, 101, 114, 105, 118, 101, 47>>

\* "salt" and "expires"
K_salt == <<115, 97, 108, 116>>

K_expires == <<101, 120, 112, 105, 114, 101, 115>>

VARIABLES
    DEFAULT_SECRET,  \* the module-level default secret, os.urandom(32) at import
    managers,        \* the TokenManager objects, by name
    clock,           \* time.time()
    tok,             \* the token at hand, with where it came from
    call,            \* the parse_token call in progress or last completed
    derived,         \* the last get_derived_secret call and its outcome
    seen,            \* an earlier get_derived_secret outcome the caller kept
    cmp,             \* a strings_differ call: its arguments and its result
    kdf,             \* an HKDF call: its arguments and its result
    stores,          \* the Secrets objects, by name
    files            \* the files on disk, by name: their bytes

vars ==
    <<DEFAULT_SECRET, managers, clock, tok, call, derived, seen, cmp, kdf, stores, files>>

\* A manager that has not been constructed.
NoManager ==
    [secret |-> <<>>, timeout |-> 0, hashmod |-> "", hashmod_name |-> "",
     hashmod_digest_size |-> 0, sig_secret |-> <<>>]

\* TokenManager.__init__ with the signing key taken from the module's
\* default secret, whatever secret the caller gives.
TokenManager_init_shared(default_secret, secret, timeout, hashmod) ==
    LET secret1  == IF secret = None THEN PyBytes(default_secret) ELSE secret
        secret2  == IF secret1.t /= "bytes" THEN utf8_encode(secret1.v) ELSE secret1.v
        timeout1 == IF timeout = None THEN DEFAULT_TIMEOUT ELSE timeout.v[1]
        hashmod1 == IF hashmod = "None" THEN DEFAULT_HASHMOD ELSE hashmod
    IN  [secret |-> secret2,
         timeout |-> timeout1,
         hashmod |-> hashmod1,
         hashmod_name |-> hashmod1,
         hashmod_digest_size |-> digest_size(hashmod1),
         sig_secret |-> HKDF(default_secret, None, HKDF_INFO_SIGNING,
                             digest_size(hashmod1), hashmod1).bytes]

\* TokenManager.__init__.  secret is None, a str or bytes; timeout is None
\* or a number; hashmod is "None" or the name of a hash function.
TokenManager_init(default_secret, secret, timeout, hashmod) ==
    LET secret1  == IF secret = None THEN PyBytes(default_secret) ELSE secret
        secret2  == IF secret1.t /= "bytes" THEN utf8_encode(secret1.v) ELSE secret1.v
        timeout1 == IF timeout = None THEN DEFAULT_TIMEOUT ELSE timeout.v[1]
        hashmod1 == IF hashmod = "None" THEN DEFAULT_HASHMOD ELSE hashmod
    IN  [secret |-> secret2,
         timeout |-> timeout1,
         hashmod |-> hashmod1,
         hashmod_name |-> hashmod1,
         hashmod_digest_size |-> digest_size(hashmod1),
         sig_secret |-> HKDF(secret2, None, HKDF_INFO_SIGNING,
                             digest_size(hashmod1), hashmod1).bytes]

\* TokenManager._get_signature
get_signature(self, value) == hmac_digest(self.sig_secret, value, self.hashmod)

\* binascii.hexlify(b).decode("ascii")
hexlify(b) ==
    Flatten([i \in 1..Len(b) |-> <<HexDigit(b[i] \div 16), HexDigit(b[i] % 16)>>])

\* make_token, lines 103-107: the data that goes into the token.  urandom3
\* is os.urandom(3) and now is time.time().
make_token_expires(self, data, now) ==
    IF ~DictHas(data, K_expires)
    THEN DictSet(data, K_expires, PyInt(now + self.timeout)) ELSE data

\* make_token with line 104 left out: the salt is always a fresh one.
make_token_data_fresh(self, data, urandom3, now) ==
    make_token_expires(self, DictSet(data, K_salt, PyStr(hexlify(urandom3))), now)

make_token_data(self, data, urandom3, now) ==
    make_token_expires(self,
        IF ~DictHas(data, K_salt)
        THEN DictSet(data, K_salt, PyStr(hexlify(urandom3))) ELSE data,
        now)

\* make_token, lines 109-111: the payload, signed and encoded.
make_token_signed(self, payload) ==
    encode_token_bytes(payload \o get_signature(self, payload))

\* make_token, lines 96-111.
make_token(self, data, urandom3, now) ==
    make_token_signed(self,
        utf8_encode(json_dumps(make_token_data(self, data, urandom3, now))))

(***************************************************************************)
(* The outcome of a call: what it returned, or the exception it raised.    *)
(***************************************************************************)
Returned(x) == [kind |-> "return", value |-> x]

Raised(exc) == [kind |-> exc, value |-> None]

Pending == [kind |-> "pending", value |-> None]

TokenErrors == {"MalformedTokenError", "InvalidSignatureError", "ExpiredTokenError"}

(***************************************************************************)
(* parse_token, step by step.  A call is a record: pc is the step it is    *)
(* at, events the steps it has run, the other fields its local variables.  *)
(***************************************************************************)
IdleCall ==
    [pc |-> "idle", mgr |-> "-", token |-> <<>>, now |-> None, decoded |-> FALSE,
     payload |-> <<>>, sig |-> <<>>, data |-> None, events |-> <<>>,
     result |-> Pending]

Finish(c, result) == [c EXCEPT !.pc = "done", !.result = result]

\* Lines 125-126 with a length check before them: a token with no payload
\* before the signature is malformed.
parse_split_short(self, c, decoded_token) ==
    IF ~decoded_token.ok \/ Len(decoded_token.bytes) <= self.hashmod_digest_size
    THEN Finish(c, Raised("MalformedTokenError"))
    ELSE [c EXCEPT !.pc = "verify", !.decoded = TRUE,
                   !.payload = DropLast(decoded_token.bytes, self.hashmod_digest_size),
                   !.sig = TakeLast(decoded_token.bytes, self.hashmod_digest_size)]

\* Lines 125-126: split payload and signature.
parse_split(self, c, decoded_token) ==
    IF ~decoded_token.ok THEN Finish(c, Raised("MalformedTokenError"))
    ELSE [c EXCEPT !.pc = "verify", !.decoded = TRUE,
                   !.payload = DropLast(decoded_token.bytes, self.hashmod_digest_size),
                   !.sig = TakeLast(decoded_token.bytes, self.hashmod_digest_size)]

\* Lines 121-126: decode the token and split payload and signature.
parse_decode(self, c) ==
    parse_split(self, [c EXCEPT !.events = Append(@, "decode")],
                decode_token_bytes(c.token))

\* Lines 130-132 without the raise: the payload is used whatever the
\* comparison says.
parse_verify_unchecked(self, c) ==
    [c EXCEPT !.events = Append(@, "verify"), !.pc = "loads"]

\* Lines 130-132: check the signature.
parse_verify(self, c) ==
    IF strings_differ(c.sig, get_signature(self, c.payload))
    THEN Finish([c EXCEPT !.events = Append(@, "verify")],
                Raised("InvalidSignatureError"))
    ELSE [c EXCEPT !.events = Append(@, "verify"), !.pc = "loads"]

\* Line 136: json.loads of the text of the payload.
parse_loaded(c, obj) ==
    IF ~obj.ok THEN Finish(c, Raised("MalformedTokenError"))
    ELSE [c EXCEPT !.pc = "expiry", !.data = obj.val]

\* Line 136: payload.decode("utf8")
parse_text(c, text) ==
    IF ~text.ok THEN Finish(c, Raised("MalformedTokenError"))
    ELSE parse_loaded(c, json_loads(text.text))

\* Lines 135-138: decode the payload.
parse_loads(self, c) ==
    parse_text([c EXCEPT !.events = Append(@, "loads")], utf8_decode(c.payload, 1, <<>>))

\* A float literal without exponent, compared with an integer: literal <= n.
FloatLE(lexeme, n) ==
    LET neg  == lexeme[1] = 45
        d0   == IF neg THEN 2 ELSE 1
        iend == SkipDigits(lexeme, d0)
        ip   == IntOf(lexeme, d0, iend, 0)
        frac == \E i \in iend + 1 .. Len(lexeme) : lexeme[i] /= 48
    IN  CASE lexeme = <<78, 97, 78>> -> FALSE
          [] lexeme = <<73, 110, 102, 105, 110, 105, 116, 121>> -> FALSE
          [] lexeme = <<45, 73, 110, 102, 105, 110, 105, 116, 121>> -> TRUE
          [] ~(\E i \in 1..Len(lexeme) : lexeme[i] \in {78, 73, 101, 69}) ->
                IF neg THEN (IF frac THEN -ip - 1 < n ELSE -ip <= n)
                ELSE (IF frac THEN ip < n ELSE ip <= n)

\* data["expires"] <= now: the exception it raises, or "" and the answer.
expires_le_value(e, now) ==
    CASE e.t = "int" -> [exc |-> "", le |-> e.v[1] <= now]
      [] e.t = "bool" -> [exc |-> "", le |-> (IF e.v[1] THEN 1 ELSE 0) <= now]
      [] e.t = "float" -> [exc |-> "", le |-> FloatLE(e.v, now)]
      [] OTHER -> [exc |-> "TypeError", le |-> FALSE]

expires_le(data, now) ==
    IF data.t /= "dict" THEN [exc |-> "TypeError", le |-> FALSE]
    ELSE IF ~DictHas(data, K_expires) THEN [exc |-> "KeyError", le |-> FALSE]
    ELSE expires_le_value(DictGet(data, K_expires), now)

\* Lines 142-144: raise or return, by what the comparison gave.
parse_outcome(c, cmpr) ==
    IF cmpr.exc /= "" THEN Finish(c, Raised(cmpr.exc))
    ELSE IF cmpr.le THEN Finish(c, Raised("ExpiredTokenError"))
    ELSE Finish(c, Returned(c.data))

\* Lines 142-144, now being a number.
parse_expired(c, now) ==
    parse_outcome([c EXCEPT !.events = Append(@, "expiry"), !.now = now],
                  expires_le(c.data, now.v[1]))

\* Lines 142-144 with < for <=.
parse_expired_strict(c, now) ==
    parse_outcome([c EXCEPT !.events = Append(@, "expiry"), !.now = now],
                  expires_le(c.data, now.v[1] - 1))

\* Lines 140-144 with < for <=.
parse_expiry_strict(self, c, time) ==
    parse_expired_strict(c, IF c.now = None THEN PyInt(time) ELSE c.now)

\* Lines 140-144: check whether the token has expired.  time is time.time().
parse_expiry(self, c, time) ==
    parse_expired(c, IF c.now = None THEN PyInt(time) ELSE c.now)

\* A call carried on through one more step, if it has not ended.
parse_then_verify(self, c) == IF c.pc = "verify" THEN parse_verify(self, c) ELSE c

parse_then_loads(self, c) == IF c.pc = "loads" THEN parse_loads(self, c) ELSE c

parse_then_expiry(self, c, time) ==
    IF c.pc = "expiry" THEN parse_expiry(self, c, time) ELSE c

\* parse_token(token, now) from its first line to its last, when the
\* clock reads time at line 141.
parse_token(self, token, now, time) ==
    parse_then_expiry(self,
        parse_then_loads(self,
            parse_then_verify(self,
                parse_decode(self, [IdleCall EXCEPT !.pc = "decode", !.token = token,
                                                    !.now = now]))),
        time)

(***************************************************************************)
(* get_derived_secret.                                                     *)
(***************************************************************************)
\* Lines 168-172 with the token left out of info.
get_derived_secret_unbound(self, token, salt) ==
    Returned(PyStr(encode_token_bytes(
        HKDF(self.secret, PyBytes(salt), HKDF_INFO_DERIVE,
             self.hashmod_digest_size, self.hashmod).bytes)))

\* get_derived_secret, lines 168-172.
get_derived_secret_salted(self, token, salt) ==
    LET info   == HKDF_INFO_DERIVE \o token
        secret == HKDF(self.secret, PyBytes(salt), info,
                       self.hashmod_digest_size, self.hashmod).bytes
    IN  Returned(PyStr(encode_token_bytes(secret)))

\* Line 167: the salt, once the payload is loaded.
get_derived_secret_salt(self, token, salt) ==
    IF salt.t /= "str" THEN Raised("AttributeError")                \* no .encode
    ELSE IF ~IsAscii(salt.v) THEN Raised("MalformedTokenError")     \* ValueError
    ELSE get_derived_secret_salted(self, token, salt.v)

\* Line 166: data["salt"] of what json.loads gave.
get_derived_secret_obj(self, token, obj) ==
    IF ~obj.ok THEN Raised("MalformedTokenError")                   \* ValueError
    ELSE IF obj.val.t /= "dict" THEN Raised("MalformedTokenError")  \* TypeError
    ELSE IF ~DictHas(obj.val, K_salt) THEN Raised("MalformedTokenError") \* KeyError
    ELSE get_derived_secret_salt(self, token, DictGet(obj.val, K_salt))

\* Line 165: json.loads of the decoded payload.
get_derived_secret_text(self, token, text) ==
    IF ~text.ok THEN Raised("MalformedTokenError")
    ELSE get_derived_secret_obj(self, token, json_loads(text.text))

\* Lines 163-164: the payload of the decoded token.
get_derived_secret_decoded(self, token, decoded) ==
    IF ~decoded.ok THEN Raised("MalformedTokenError")
    ELSE get_derived_secret_text(self, token,
             utf8_decode(DropLast(decoded.bytes, self.hashmod_digest_size), 1, <<>>))

\* get_derived_secret with the signature check of parse_token before it.
get_derived_secret_verified(self, token) ==
    IF parse_then_verify(self,
           parse_decode(self, [IdleCall EXCEPT !.pc = "decode", !.token = token])).result.kind
       = "InvalidSignatureError"
    THEN Raised("InvalidSignatureError")
    ELSE get_derived_secret_decoded(self, token, decode_token_bytes(token))

\* get_derived_secret, lines 158-172.
get_derived_secret(self, token) ==
    get_derived_secret_decoded(self, token, decode_token_bytes(token))

(***************************************************************************)
(* secrets.py: the Secrets store.  _secrets, a defaultdict(list), is the   *)
(* sequence of its <<node, list>> entries in insertion order, a list item  *)
(* being <<timestamp, secret>>, two strings.  The file is written and read *)
(* by the csv module in binary mode, which Python 2 takes and Python 3     *)
(* does not: is_py3 says which of the two runs the call.                   *)
(***************************************************************************)
Secrets_init == [_secrets |-> <<>>, _filename |-> None]

\* Lines 61-62.  (On a node the store does not have, self._secrets[node]
\* also enters the node with an empty list; such an entry is written as a
\* row of one field, which load skips.)
Secrets_get(self, node) ==
    LET entries == SelectSeq(self._secrets, LAMBDA e : e[1] = node)
    IN  IF entries = <<>> THEN <<>>
        ELSE [k \in 1..Len(entries[1][2]) |-> entries[1][2][k][2]]

\* Lines 64-67; time is time.time() and urandom is os.urandom(size).
Secrets_add(self, node, size, time, urandom) ==
    LET timestamp == Digits(time)
        secret    == Take(hexlify(urandom), size)
        old       == self._secrets
    IN  IF \E k \in 1..Len(old) : old[k][1] = node
        THEN [self EXCEPT !._secrets =
                 [k \in 1..Len(old) |->
                     IF old[k][1] = node
                     THEN <<node, <<<<timestamp, secret>>>> \o old[k][2]>>
                     ELSE old[k]]]
        ELSE [self EXCEPT !._secrets = Append(old, <<node, <<<<timestamp, secret>>>>>>)]

\* csv.writer(f, delimiter=',').writerow(row): the excel dialect, a field
\* with the delimiter, a quote or a line end in it quoted and its quotes
\* doubled, and "\r\n" after the row.
csv_writerow(row) ==
    LET quoted(f) == <<34>> \o Flatten([k \in 1..Len(f) |->
                                          IF f[k] = 34 THEN <<34, 34>> ELSE <<f[k]>>])
                     \o <<34>>
        field(f)  == IF \E k \in 1..Len(f) : f[k] \in {44, 34, 13, 10} THEN quoted(f) ELSE f
    IN  (IF row = <<<<>>>> THEN <<34, 34>>
         ELSE Flatten([i \in 1..Len(row) |->
                          (IF i > 1 THEN <<44>> ELSE <<>>) \o field(row[i])]))
        \o <<13, 10>>

\* Lines 53-59: the bytes written, or the exception.  Under Python 3 the
\* first writerow raises TypeError, the file being open in binary mode,
\* and the file stays as open(filename, 'wb') left it: empty.
Secrets_save(self, is_py3) ==
    IF is_py3 /\ self._secrets /= <<>> THEN [exc |-> "TypeError", bytes |-> <<>>]
    ELSE [exc |-> "",
          bytes |-> Flatten([n \in 1..Len(self._secrets) |->
                       csv_writerow(<<self._secrets[n][1]>> \o
                           [k \in 1..Len(self._secrets[n][2]) |->
                               self._secrets[n][2][k][1] \o <<58>>
                                   \o self._secrets[n][2][k][2]])])]

\* csv.reader(f, delimiter=','): the rows of the text s from character i on.
\* st is "start" at the start of a field, "field" in an unquoted field,
\* "quoted" in a quoted one, "quote" after a quote in a quoted field and
\* "eol" after a carriage return; a blank line is the row with no field.
RECURSIVE csv_reader(_, _, _, _, _)
csv_reader(s, i, st, f, row) ==
    IF i > Len(s)
    THEN (IF st = "eol" \/ (st = "start" /\ row = <<>>) THEN <<>> ELSE <<Append(row, f)>>)
    ELSE IF st = "eol"
    THEN csv_reader(s, IF s[i] = 10 THEN i + 1 ELSE i, "start", <<>>, <<>>)
    ELSE IF st = "quoted"
    THEN (IF s[i] = 34 THEN csv_reader(s, i + 1, "quote", f, row)
          ELSE csv_reader(s, i + 1, "quoted", Append(f, s[i]), row))
    ELSE IF st = "quote" /\ s[i] = 34
    THEN csv_reader(s, i + 1, "quoted", Append(f, 34), row)
    ELSE IF s[i] = 44
    THEN csv_reader(s, i + 1, "start", <<>>, Append(row, f))
    ELSE IF s[i] \in {13, 10}
    THEN <<(IF st = "start" /\ row = <<>> THEN <<>> ELSE Append(row, f))>>
         \o csv_reader(s, i + 1, IF s[i] = 13 THEN "eol" ELSE "start", <<>>, <<>>)
    ELSE IF st = "start" /\ s[i] = 34
    THEN csv_reader(s, i + 1, "quoted", f, row)
    ELSE csv_reader(s, i + 1, "field", Append(f, s[i]), row)

\* list.sort() on a list of tuples of strings: by the first string, then by
\* the second, a string before the strings it starts.
sorted(list) ==
    LET StrLess(a, b) ==
            \E k \in 1..Len(b) :
                /\ \A j \in 1..(k - 1) : j <= Len(a) /\ a[j] = b[j]
                /\ (k > Len(a) \/ (k <= Len(a) /\ a[k] < b[k]))
        Less(x, y) == StrLess(x[1], y[1]) \/ (x[1] = y[1] /\ StrLess(x[2], y[2]))
        rank(i) == Cardinality({j \in 1..Len(list) :
                                   Less(list[j], list[i]) \/ (~Less(list[i], list[j]) /\ j <= i)})
    IN  [r \in 1..Len(list) |-> list[CHOOSE i \in 1..Len(list) : rank(i) = r]]

\* Lines 32-45 on the rows from the given one on: the store, or the
\* exception.
RECURSIVE Secrets_load_rows(_, _, _)
Secrets_load_rows(self, rows, line) ==
    IF line > Len(rows) THEN [exc |-> "", self |-> self]
    ELSE IF Len(rows[line]) < 2 THEN Secrets_load_rows(self, rows, line + 1)
    ELSE IF \E k \in 1..Len(self._secrets) : self._secrets[k][1] = rows[line][1]
    THEN [exc |-> "ValueError", self |-> self]
    ELSE IF \E n \in 2..Len(rows[line]) :
                Cardinality({k \in 1..Len(rows[line][n]) : rows[line][n][k] = 58}) /= 1
    THEN [exc |-> "ValueError", self |-> self]
    ELSE Secrets_load_rows(
             [self EXCEPT !._secrets = Append(@,
                 <<rows[line][1],
                   sorted([n \in 1..(Len(rows[line]) - 1) |->
                       LET secret == rows[line][n + 1]
                           colon  == CHOOSE k \in 1..Len(secret) : secret[k] = 58
                       IN  <<SubSeq(secret, 1, colon - 1),
                             SubSeq(secret, colon + 1, Len(secret))>>])>>)],
             rows, line + 1)

\* Lines 24-45 on a file of the given bytes.  Under Python 3 the reader
\* raises csv.Error on the first line it is given, a line of bytes.
Secrets_load(self, filename, bytes, is_py3) ==
    IF is_py3 /\ bytes /= <<>> THEN [exc |-> "Error", self |-> [self EXCEPT !._filename = filename]]
    ELSE Secrets_load_rows([self EXCEPT !._filename = filename],
                           csv_reader(bytes, 1, "start", <<>>, <<>>), 1)

(***************************************************************************)
(* The manager after a call.  __init__ is the only method with an          *)
(* assignment to an attribute of self: make_token, parse_token and         *)
(* get_derived_secret work on locals (data, payload, sig, now, salt, info, *)
(* secret) and leave the manager, and the module's DEFAULT_SECRET, as they *)
(* were.                                                                   *)
(***************************************************************************)
make_token_self(self, data) == self

parse_token_self(self, token) == self

\* Line 170 with self.secret in the place of the local secret.
get_derived_secret_self_rekeyed(self, token) ==
    IF get_derived_secret(self, token).kind = "return"
    THEN [self EXCEPT !.secret = get_derived_secret(self, token).value.v]
    ELSE self

get_derived_secret_self(self, token) == self

(***************************************************************************)
(* The state machine.                                                      *)
(***************************************************************************)
Managers == {"M1", "M2"}

NoToken ==
    [kind |-> "none", text |-> <<>>, orig |-> <<>>, by |-> "-", claims |-> None,
     urandom3 |-> <<>>, time |-> 0, pos |-> 0]

NoDerived == [mgr |-> "-", token |-> <<>>, time |-> 0, result |-> Pending]

NoCmp == [string1 |-> <<>>, string2 |-> <<>>, done |-> FALSE, result |-> FALSE]

\* The stores of the test: secrets, which gets the adds, and secrets2, which
\* is loaded from the file.
NoStores == [s \in {"secrets", "secrets2"} |-> Secrets_init]

\* The file at path, and how the save and the load of it ended: "" before the
\* call, "ok", or the exception.
NoFiles == [exists |-> FALSE, bytes |-> <<>>, saved |-> "", loaded |-> ""]

NoKdf ==
    [secret |-> <<>>, salt |-> None, info |-> <<>>, size |-> 0, hashmod |-> "",
     done |-> FALSE, result |-> AssertionError]

Constructed(m) == managers[m] /= NoManager

CallIdle == call.pc \in {"idle", "done"}

\* m = TokenManager(secret, timeout, hashmod)
Construct(m, secret, timeout, hashmod) ==
    /\ ~Constructed(m)
    /\ managers' = [managers EXCEPT
                       ![m] = TokenManager_init(DEFAULT_SECRET, secret, timeout, hashmod)]
    /\ UNCHANGED <<DEFAULT_SECRET, clock, tok, call, derived, seen, cmp, kdf, stores, files>>

\* Time passes.
Tick(limit) ==
    /\ clock < limit
    /\ clock' = clock + 1
    /\ UNCHANGED <<DEFAULT_SECRET, managers, tok, call, derived, seen, cmp, kdf, stores, files>>

\* tok = managers[m].make_token(data)
MakeToken(m, data, urandom3) ==
    /\ Constructed(m)
    /\ tok = NoToken
    /\ tok' = [kind |-> "minted",
               text |-> make_token(managers[m], data, urandom3, clock),
               orig |-> <<>>, by |-> m, claims |-> data,
               urandom3 |-> urandom3, time |-> clock, pos |-> 0]
    /\ managers' = [managers EXCEPT ![m] = make_token_self(@, data)]
    /\ UNCHANGED <<DEFAULT_SECRET, clock, call, derived, seen, cmp, kdf, stores, files>>

\* Someone without the secret makes a token of their own: payload and sig
\* bytes of their choice, encoded as a token is.
Forge(payload, sig) ==
    /\ tok = NoToken
    /\ tok' = [NoToken EXCEPT !.kind = "forged",
                              !.text = encode_token_bytes(payload \o sig)]
    /\ UNCHANGED <<DEFAULT_SECRET, managers, clock, call, derived, seen, cmp, kdf, stores, files>>

\* A payload that make_token never writes, under the signature of manager m.
ForgeSigned(m, payload) ==
    /\ Constructed(m)
    /\ tok = NoToken
    /\ tok' = [NoToken EXCEPT
                  !.kind = "signed", !.by = m,
                  !.text = encode_token_bytes(payload \o get_signature(managers[m], payload))]
    /\ UNCHANGED <<DEFAULT_SECRET, managers, clock, call, derived, seen, cmp, kdf, stores, files>>

\* Text that is no encoding of bytes.
ForgeText(text) ==
    /\ tok = NoToken
    /\ tok' = [NoToken EXCEPT !.kind = "forged", !.text = text]
    /\ UNCHANGED <<DEFAULT_SECRET, managers, clock, call, derived, seen, cmp, kdf, stores, files>>

\* One character of a minted token is replaced by another.
Tamper(pos, ch) ==
    /\ tok.kind = "minted"
    /\ call = IdleCall /\ derived = NoDerived
    /\ ch /= tok.text[pos]
    /\ tok' = [tok EXCEPT !.kind = "tampered", !.orig = tok.text, !.pos = pos,
                          !.text = [tok.text EXCEPT ![pos] = ch]]
    /\ UNCHANGED <<DEFAULT_SECRET, managers, clock, call, derived, seen, cmp, kdf, stores, files>>

\* The token is put aside.
Discard ==
    /\ tok /= NoToken
    /\ CallIdle
    /\ tok' = NoToken
    /\ call' = IdleCall
    /\ derived' = NoDerived
    /\ UNCHANGED <<DEFAULT_SECRET, managers, clock, seen, cmp, kdf, stores, files>>

\* managers[m].parse_token(tok, now) is called.
ParseBegin(m, now) ==
    /\ Constructed(m)
    /\ tok /= NoToken
    /\ CallIdle
    /\ call' = [IdleCall EXCEPT !.pc = "decode", !.mgr = m, !.token = tok.text,
                                !.now = now]
    /\ UNCHANGED <<DEFAULT_SECRET, managers, clock, tok, derived, seen, cmp, kdf, stores, files>>

ParseDecode ==
    /\ call.pc = "decode"
    /\ call' = parse_decode(managers[call.mgr], call)
    /\ managers' = [managers EXCEPT ![call.mgr] = parse_token_self(@, call.token)]
    /\ UNCHANGED <<DEFAULT_SECRET, clock, tok, derived, seen, cmp, kdf, stores, files>>

ParseVerify ==
    /\ call.pc = "verify"
    /\ call' = parse_verify(managers[call.mgr], call)
    /\ managers' = [managers EXCEPT ![call.mgr] = parse_token_self(@, call.token)]
    /\ UNCHANGED <<DEFAULT_SECRET, clock, tok, derived, seen, cmp, kdf, stores, files>>

ParseLoads ==
    /\ call.pc = "loads"
    /\ call' = parse_loads(managers[call.mgr], call)
    /\ managers' = [managers EXCEPT ![call.mgr] = parse_token_self(@, call.token)]
    /\ UNCHANGED <<DEFAULT_SECRET, clock, tok, derived, seen, cmp, kdf, stores, files>>

ParseExpiry ==
    /\ call.pc = "expiry"
    /\ call' = parse_expiry(managers[call.mgr], call, clock)
    /\ managers' = [managers EXCEPT ![call.mgr] = parse_token_self(@, call.token)]
    /\ UNCHANGED <<DEFAULT_SECRET, clock, tok, derived, seen, cmp, kdf, stores, files>>

\* managers[m].get_derived_secret(tok) is called and ends.
GetDerivedSecret(m) ==
    /\ Constructed(m)
    /\ tok /= NoToken
    /\ derived = NoDerived
    /\ derived' = [mgr |-> m, token |-> tok.text, time |-> clock,
                   result |-> get_derived_secret(managers[m], tok.text)]
    /\ managers' = [managers EXCEPT ![m] = get_derived_secret_self(@, tok.text)]
    /\ UNCHANGED <<DEFAULT_SECRET, clock, tok, call, seen, cmp, kdf, stores, files>>

\* The caller keeps the derived secret they were given, to compare it later.
Remember ==
    /\ derived.result.kind = "return"
    /\ seen = NoDerived
    /\ seen' = derived
    /\ derived' = NoDerived
    /\ UNCHANGED <<DEFAULT_SECRET, managers, clock, tok, call, cmp, kdf, stores, files>>

\* strings_differ(string1, string2) is called and ends.
Compare ==
    /\ ~cmp.done
    /\ cmp' = [cmp EXCEPT !.done = TRUE,
                          !.result = strings_differ(cmp.string1, cmp.string2)]
    /\ UNCHANGED <<DEFAULT_SECRET, managers, clock, tok, call, derived, seen, kdf, stores, files>>

\* HKDF(secret, salt, info, size, hashmod) is called and ends.
HKDFCall(secret, salt, info, size, hashmod) ==
    /\ ~kdf.done
    /\ kdf' = [secret |-> secret, salt |-> salt, info |-> info, size |-> size,
               hashmod |-> hashmod, done |-> TRUE,
               result |-> HKDF(secret, salt, info, size, hashmod)]
    /\ UNCHANGED <<DEFAULT_SECRET, managers, clock, tok, call, derived, seen, cmp,
                   stores, files>>

\* secrets.add(node, size), before the store is saved, while it has fewer
\* than limit secrets.
SecretsAdd(node, size, urandom, limit) ==
    /\ files.saved = ""
    /\ Len(Flatten([n \in 1..Len(stores.secrets._secrets) |->
                       stores.secrets._secrets[n][2]])) < limit
    /\ stores' = [stores EXCEPT !.secrets = Secrets_add(@, node, size, clock, urandom)]
    /\ UNCHANGED <<DEFAULT_SECRET, managers, clock, tok, call, derived, seen, cmp, kdf,
                   files>>

\* secrets.save(path)
SecretsSave(is_py3) ==
    /\ files.saved = ""
    /\ files' = [exists |-> TRUE,
                 bytes  |-> Secrets_save(stores.secrets, is_py3).bytes,
                 saved  |-> IF Secrets_save(stores.secrets, is_py3).exc = "" THEN "ok"
                            ELSE Secrets_save(stores.secrets, is_py3).exc,
                 loaded |-> ""]
    /\ UNCHANGED <<DEFAULT_SECRET, managers, clock, tok, call, derived, seen, cmp, kdf,
                   stores>>

\* secrets2 = Secrets(path)
SecretsLoad(is_py3) ==
    /\ files.exists
    /\ files.loaded = ""
    /\ stores' = [stores EXCEPT !.secrets2 =
                     Secrets_load(Secrets_init, PyStr(<<112>>), files.bytes, is_py3).self]
    /\ files' = [files EXCEPT !.loaded =
                    IF Secrets_load(Secrets_init, PyStr(<<112>>), files.bytes, is_py3).exc = ""
                    THEN "ok"
                    ELSE Secrets_load(Secrets_init, PyStr(<<112>>), files.bytes, is_py3).exc]
    /\ UNCHANGED <<DEFAULT_SECRET, managers, clock, tok, call, derived, seen, cmp, kdf>>

(***************************************************************************)
(* The inputs.                                                             *)
(***************************************************************************)
\* The last tick of the clock.
MaxClock == 2

\* The most secrets added to a store.
MaxSecrets == 3

\* The longest byte string given to strings_differ.
MaxCmpLen == 2

\* os.urandom(3)
Urandom == [a |-> <<161, 178, 195>>, b |-> <<0, 0, 10>>]

\* The arguments of TokenManager(secret, timeout, hashmod): no arguments;
\* "one", 1, "md5"; b"one", 2, "sha1"; "two", 1, "md5"; None, 1, "md5";
\* b"one", 1, "md5".
Args ==
    [default   |-> <<None, None, "None">>,
     one       |-> <<PyStr(<<111, 110, 101>>), PyInt(1), "md5">>,
     one_sha1  |-> <<PyBytes(<<111, 110, 101>>), PyInt(2), "sha1">>,
     two       |-> <<PyStr(<<116, 119, 111>>), PyInt(1), "md5">>,
     none      |-> <<None, PyInt(1), "md5">>,
     one_bytes |-> <<PyBytes(<<111, 110, 101>>), PyInt(1), "md5">>]

\* The claims given to make_token:
\*   hello          {"hello": "world"}
\*   empty          {}
\*   salt           {"salt": "ab"}
\*   salt_user      {"salt": "ab", "user": 7}
\*   expires        {"expires": 2}
\*   salt_int       {"salt": 42}
\*   salt_null      {"salt": None}
\*   salt_nonascii  {"salt": "e-acute"}
\*   expires_str    {"expires": "x"}
\*   expires_null   {"expires": None}
\*   rich           {"k\"": ["e-acute", -3, False], "d": {"a": None}}
Claims ==
    [hello |-> PyDict(<<<<<<104, 101, 108, 108, 111>>,
                          PyStr(<<119, 111, 114, 108, 100>>)>>>>),
     empty |-> PyDict(<<>>),
     salt |-> PyDict(<<<<K_salt, PyStr(<<97, 98>>)>>>>),
     salt_user |-> PyDict(<<<<K_salt, PyStr(<<97, 98>>)>>,
                            <<<<117, 115, 101, 114>>, PyInt(7)>>>>),
     expires |-> PyDict(<<<<K_expires, PyInt(2)>>>>),
     salt_int |-> PyDict(<<<<K_salt, PyInt(42)>>>>),
     salt_null |-> PyDict(<<<<K_salt, None>>>>),
     salt_nonascii |-> PyDict(<<<<K_salt, PyStr(<<233>>)>>>>),
     expires_str |-> PyDict(<<<<K_expires, PyStr(<<120>>)>>>>),
     expires_null |-> PyDict(<<<<K_expires, None>>>>),
     rich |-> PyDict(<<<<<<107, 34>>,
                         PyList(<<PyStr(<<233>>), PyInt(-3), PyBool(FALSE)>>)>>,
                       <<<<100>>, PyDict(<<<<<<97>>, None>>>>)>>>>)]

\* The payloads of tokens that make_token did not write:
\*   none           b''
\*   notjson        b'NOTJSON'
\*   empty_obj      b'{}'
\*   int            b'42'
\*   list           b'[1]'
\*   str            b'"salt"'
\*   salt_int       b'{"salt": 42}'
\*   salt_null      b'{"salt": null}'
\*   salt           b'{"salt": "ab"}'
\*   salt_nonascii  b'{"salt": "\xc3\xa9"}'
\*   expired        b'{"salt": "ab", "expires": 0}'
\*   badutf8        b'\xff'
Payloads ==
    [none |-> <<>>,
     notjson |-> <<78, 79, 84, 74, 83, 79, 78>>,
     empty_obj |-> <<123, 125>>,
     int |-> <<52, 50>>,
     list |-> <<91, 49, 93>>,
     str |-> <<34, 115, 97, 108, 116, 34>>,
     salt_int |-> <<123, 34, 115, 97, 108, 116, 34, 58, 32, 52, 50, 125>>,
     salt_null |-> <<123, 34, 115, 97, 108, 116, 34, 58, 32, 110, 117, 108, 108, 125>>,
     salt |-> <<123, 34, 115, 97, 108, 116, 34, 58, 32, 34, 97, 98, 34, 125>>,
     salt_nonascii |->
         <<123, 34, 115, 97, 108, 116, 34, 58, 32, 34, 195, 169, 34, 125>>,
     expired |->
         <<123, 34, 115, 97, 108, 116, 34, 58, 32, 34, 97, 98, 34, 44, 32, 34, 101,
           120, 112, 105, 114, 101, 115, 34, 58, 32, 48, 125>>,
     badutf8 |-> <<255>>]

\* Texts that are no encoding of bytes: "A", "e-acute", "QUI"; and "!!!",
\* which decodes to no bytes.
ForgedTexts == {<<65>>, <<233>>, <<33, 33, 33>>, <<81, 85, 73>>}

\* The byte strings of up to n bytes over the bytes in B.
RECURSIVE SeqsUpTo(_, _)
SeqsUpTo(B, n) ==
    IF n = 0 THEN {<<>>}
    ELSE LET shorter == SeqsUpTo(B, n - 1)
         IN  shorter \cup {Append(s, b) : s \in {x \in shorter : Len(x) = n - 1}, b \in B}

(***************************************************************************)
(* Spec: one manager, built with any of the arguments, and every way to    *)
(* get a token and to have it parsed.                                      *)
(***************************************************************************)
Init ==
    /\ DEFAULT_SECRET \in {Repeat(17, 32)}
    /\ managers = [m \in Managers |-> NoManager]
    /\ clock = 0
    /\ tok = NoToken
    /\ call = IdleCall
    /\ derived = NoDerived
    /\ seen = NoDerived
    /\ cmp = NoCmp
    /\ kdf = NoKdf
    /\ stores = NoStores
    /\ files = NoFiles

Next ==
    \/ \E a \in {Args.default, Args.one, Args.one_sha1} : Construct("M1", a[1], a[2], a[3])
    \/ Tick(MaxClock)
    \/ \E data \in {Claims[k] : k \in DOMAIN Claims} : MakeToken("M1", data, Urandom.a)
    \/ /\ Constructed("M1")
       /\ \E payload \in {Payloads[k] : k \in DOMAIN Payloads} :
             \E n \in {0, managers["M1"].hashmod_digest_size - 1,
                       managers["M1"].hashmod_digest_size} :
                 Forge(payload, Repeat(88, n))
    \/ \E payload \in {Payloads.none, Payloads.notjson, Payloads.salt, Payloads.int} :
          ForgeSigned("M1", payload)
    \/ \E text \in ForgedTexts : ForgeText(text)
    \/ \E now \in {None, PyInt(1), PyInt(DEFAULT_TIMEOUT + 1)} : ParseBegin("M1", now)
    \/ ParseDecode
    \/ ParseVerify
    \/ ParseLoads
    \/ ParseExpiry
    \/ Discard

Spec == Init /\ [][Next]_vars

(***************************************************************************)
(* SpecTamper: a manager mints a token, one character of it is replaced,   *)
(* and the manager parses what it gets.                                    *)
(***************************************************************************)
\* The characters put in the place of character c: other letters of the
\* alphabet, the standard alphabet's spelling of '-' and '_', padding, and
\* characters outside the alphabet.
TamperChars(c) ==
    IF B64Val(c) >= 0
    THEN {B64Char((B64Val(c) + 1) % 64), B64Char((B64Val(c) + 32) % 64), 61, 33}
         \cup (IF c = 45 THEN {43} ELSE IF c = 95 THEN {47} ELSE {})
    ELSE {65, 33, 233}

InitTamper ==
    /\ DEFAULT_SECRET \in {Repeat(17, 32)}
    /\ managers = [m \in Managers |->
                     IF m = "M1"
                     THEN TokenManager_init(DEFAULT_SECRET, Args.one[1], Args.one[2], Args.one[3])
                     ELSE NoManager]
    /\ clock = 0
    /\ tok = NoToken
    /\ call = IdleCall
    /\ derived = NoDerived
    /\ seen = NoDerived
    /\ cmp = NoCmp
    /\ kdf = NoKdf
    /\ stores = NoStores
    /\ files = NoFiles

NextTamper ==
    \/ Tick(MaxClock)
    \/ \E data \in {Claims.hello, Claims.empty, Claims.salt} : MakeToken("M1", data, Urandom.a)
    \/ \E pos \in 1..Len(tok.text) : \E ch \in TamperChars(tok.text[pos]) : Tamper(pos, ch)
    \/ ParseBegin("M1", None)
    \/ ParseDecode
    \/ ParseVerify
    \/ ParseLoads
    \/ ParseExpiry
    \/ Discard

SpecTamper == InitTamper /\ [][NextTamper]_vars

(***************************************************************************)
(* SpecKeys: two managers, each with a secret of its own; each parses and  *)
(* derives from the tokens of both.                                        *)
(***************************************************************************)
NextKeys ==
    \/ \E m \in Managers :
          \E a \in {Args.none, Args.one, Args.one_bytes, Args.two, Args.one_sha1} :
              Construct(m, a[1], a[2], a[3])
    \/ \E m \in Managers : \E data \in {Claims.hello, Claims.salt} :
          /\ \A k \in Managers : Constructed(k)
          /\ MakeToken(m, data, Urandom.a)
    \/ \E m \in Managers : derived = NoDerived /\ ParseBegin(m, None)
    \/ ParseDecode
    \/ ParseVerify
    \/ ParseLoads
    \/ ParseExpiry
    \/ \E m \in Managers : call = IdleCall /\ GetDerivedSecret(m)
    \/ Discard

SpecKeys == Init /\ [][NextKeys]_vars

(***************************************************************************)
(* SpecDerive: a manager is asked for the derived secrets of tokens, its   *)
(* own and others, and the caller keeps one answer to compare with a later *)
(* one.                                                                    *)
(***************************************************************************)
NextDerive ==
    \/ \E a \in {Args.default, Args.one} : Construct("M1", a[1], a[2], a[3])
    \/ Tick(MaxClock)
    \/ \E data \in {Claims.hello, Claims.salt, Claims.salt_user, Claims.salt_int} :
          \E u \in (IF data = Claims.hello THEN {Urandom.a, Urandom.b} ELSE {Urandom.a}) :
              MakeToken("M1", data, u)
    \/ /\ Constructed("M1")
       /\ \E payload \in {Payloads.notjson, Payloads.empty_obj, Payloads.int,
                           Payloads.salt_null, Payloads.salt, Payloads.salt_nonascii,
                           Payloads.badutf8} :
             Forge(payload, Repeat(88, managers["M1"].hashmod_digest_size))
    \/ \E text \in ForgedTexts : ForgeText(text)
    \/ GetDerivedSecret("M1")
    \/ Remember
    \/ Discard

SpecDerive == Init /\ [][NextDerive]_vars

(***************************************************************************)
(* SpecCmp: strings_differ on every pair of short byte strings.            *)
(***************************************************************************)
InitCmp ==
    /\ DEFAULT_SECRET \in {Repeat(17, 32)}
    /\ managers = [m \in Managers |-> NoManager]
    /\ clock = 0
    /\ tok = NoToken
    /\ call = IdleCall
    /\ derived = NoDerived
    /\ seen = NoDerived
    /\ cmp \in {[NoCmp EXCEPT !.string1 = a, !.string2 = b] :
                   a \in SeqsUpTo({0, 1, 3, 255}, MaxCmpLen),
                   b \in SeqsUpTo({0, 1, 3, 255}, MaxCmpLen)}
    /\ kdf = NoKdf
    /\ stores = NoStores
    /\ files = NoFiles

NextCmp == Compare

SpecCmp == InitCmp /\ [][NextCmp]_vars

(***************************************************************************)
(* SpecFrame: two managers, built at any moment, serve make_token,         *)
(* parse_token and get_derived_secret calls that succeed and that fail; a  *)
(* get_derived_secret call may come between the steps of a parse_token     *)
(* call, on the same manager or on the other.                              *)
(***************************************************************************)
NextFrame ==
    \/ \E a \in {Args.default, Args.one} : Construct("M1", a[1], a[2], a[3])
    \/ Construct("M2", Args.two[1], Args.two[2], Args.two[3])
    \/ Tick(MaxClock)
    \/ \E m \in Managers : \E data \in {Claims.hello, Claims.salt_int} :
          MakeToken(m, data, Urandom.a)
    \/ Forge(Payloads.notjson, Repeat(88, 16))
    \/ \E m \in Managers : ParseBegin(m, None)
    \/ ParseDecode
    \/ ParseVerify
    \/ ParseLoads
    \/ ParseExpiry
    \/ \E m \in Managers : GetDerivedSecret(m)
    \/ Discard

SpecFrame == Init /\ [][NextFrame]_vars

(***************************************************************************)
(* SpecHKDF: HKDF on keys, salts, infos and sizes around the block         *)
(* boundaries and around the limit of 255 blocks.                          *)
(***************************************************************************)
NextHKDF ==
    \E hashmod \in {"md5", "sha1", "sha256"} :
        \E secret \in {<<>>, <<11, 11>>, Repeat(12, 22)} :
            \E salt \in {None, PyBytes(<<>>), PyBytes(<<0, 1, 2>>)} :
                \E info \in {<<>>, <<240, 241>>} :
                    \E size \in LET d == digest_size(hashmod)
                                IN  {0, 1, d - 1, d, d + 1, 42, 2 * d + 3, 255 * d - 1,
                                     255 * d, 255 * d + 1, 256 * d} :
                        HKDFCall(secret, salt, info, size, hashmod)

SpecHKDF == Init /\ [][NextHKDF]_vars

(***************************************************************************)
(* SpecSecrets: secrets are added to a store, for two nodes and as time    *)
(* passes; the store is saved, and the file is loaded into a new store.    *)
(***************************************************************************)
\* The nodes: "p1" and "p,2".
Nodes == {<<112, 49>>, <<112, 44, 50>>}

NextSecrets ==
    \/ Tick(MaxClock)
    \/ \E node \in Nodes : \E urandom \in {<<18, 52>>, <<171, 205>>} :
          SecretsAdd(node, 2, urandom, MaxSecrets)
    \/ \E is_py3 \in BOOLEAN : SecretsSave(is_py3)
    \/ \E is_py3 \in BOOLEAN : SecretsLoad(is_py3)

SpecSecrets == Init /\ [][NextSecrets]_vars

(***************************************************************************)
(* The claims.                                                             *)
(***************************************************************************)
\* The steps of parse_token, in the order of the code.
ParseSteps == <<"decode", "verify", "loads", "expiry">>

\* The signature the manager of the call computes over the call's payload.
ExpectedSig == get_signature(managers[call.mgr], call.payload)

\* The time the call compares expires with.
NowOf(c) == IF c.now = None THEN clock ELSE c.now.v[1]

\* C1: in parse_token the payload is JSON-decoded and its expires read only
\* after the comparison found the decoded signature equal to the HMAC of the
\* decoded payload; a token whose signature does not match ends in
\* InvalidSignatureError, whatever its payload.
C1_SignatureBeforePayload ==
    call.pc /= "idle" =>
        /\ call.events = SubSeq(ParseSteps, 1, Len(call.events))
        /\ call.pc = "loads" => Len(call.events) = 2
        /\ call.pc = "expiry" => Len(call.events) = 3
        /\ (call.pc \in {"loads", "expiry"} \/ Len(call.events) >= 3) =>
               call.sig = ExpectedSig
        /\ (call.pc = "done" /\ call.decoded /\ call.sig /= ExpectedSig) =>
               /\ call.result = Raised("InvalidSignatureError")
               /\ call.events = <<"decode", "verify">>
               /\ call.data = None

\* A forged token with a payload that is no JSON has ended in
\* InvalidSignatureError.
C1_Witness ==
    /\ call.pc = "done" /\ call.decoded
    /\ call.payload = Payloads.notjson
    /\ call.sig /= ExpectedSig
    /\ call.result = Raised("InvalidSignatureError")

\* The call has a correctly signed payload that is a JSON object with an
\* integer expires, and has ended.
SignedWithExpires ==
    /\ call.pc = "done" /\ call.decoded
    /\ call.sig = ExpectedSig
    /\ call.data.t = "dict"
    /\ DictHas(call.data, K_expires)
    /\ DictGet(call.data, K_expires).t = "int"

\* C2: for a correctly signed token and a verification time now, parse_token
\* raises ExpiredTokenError iff expires <= now and returns the claims iff
\* expires > now.
C2_ExpiryBoundary ==
    SignedWithExpires =>
        /\ call.now /= None
        /\ call.result = Raised("ExpiredTokenError")
               <=> DictGet(call.data, K_expires).v[1] <= call.now.v[1]
        /\ call.result = Returned(call.data)
               <=> DictGet(call.data, K_expires).v[1] > call.now.v[1]

\* A token parsed at the very time it expires was rejected.
C2_Witness ==
    /\ SignedWithExpires
    /\ call.now /= None
    /\ DictGet(call.data, K_expires).v[1] = call.now.v[1]
    /\ call.result = Raised("ExpiredTokenError")

\* The expires of the token at hand: the caller's, or the one make_token
\* injects.
EmbeddedExpires ==
    IF DictHas(tok.claims, K_expires) THEN DictGet(tok.claims, K_expires)
    ELSE PyInt(tok.time + managers[tok.by].timeout)

\* The manager that minted the token at hand has parsed it, at a time
\* before its expiry.
ParsedBeforeExpiry ==
    /\ tok.kind = "minted"
    /\ call.pc = "done" /\ call.mgr = tok.by /\ call.token = tok.text
    /\ EmbeddedExpires.t = "int"
    /\ NowOf(call) < EmbeddedExpires.v[1]

\* C3: M.parse_token(M.make_token(C), now), now before the expiry, returns a
\* mapping with the keys of C plus salt and expires, the value of C for every
\* key of C, and the injected salt and expires where C had none.
C3_RoundTrip ==
    ParsedBeforeExpiry =>
        /\ call.result.kind = "return"
        /\ call.result.value.t = "dict"
        /\ DictKeys(call.result.value) = DictKeys(tok.claims) \cup {K_salt, K_expires}
        /\ Len(call.result.value.v) = Cardinality(DictKeys(call.result.value))
        /\ \A k \in DictKeys(tok.claims) :
               DictGet(call.result.value, k) = DictGet(tok.claims, k)
        /\ ~DictHas(tok.claims, K_salt) =>
               DictGet(call.result.value, K_salt) = PyStr(hexlify(tok.urandom3))
        /\ ~DictHas(tok.claims, K_expires) =>
               DictGet(call.result.value, K_expires)
                   = PyInt(tok.time + managers[tok.by].timeout)

\* Claims with a salt of the caller's came back with that salt and an
\* injected expires.
C3_Witness ==
    /\ ParsedBeforeExpiry
    /\ tok.claims = Claims.salt_user
    /\ call.result.kind = "return"
    /\ DictGet(call.result.value, K_salt) = PyStr(<<97, 98>>)
    /\ DictHas(call.result.value, K_expires)

\* The token of the call decodes to no more bytes than a signature has, and
\* the call has ended.
DecodedShort ==
    /\ call.pc = "done"
    /\ decode_token_bytes(call.token).ok
    /\ Len(decode_token_bytes(call.token).bytes)
           <= managers[call.mgr].hashmod_digest_size

TamperedParsed ==
    /\ tok.kind = "tampered"
    /\ call.pc = "done" /\ call.mgr = tok.by /\ call.token = tok.text

\* The tampered token decodes to the bytes the minted token decodes to.
SameBytes ==
    /\ decode_token_bytes(tok.text).ok
    /\ decode_token_bytes(tok.text).bytes = decode_token_bytes(tok.orig).bytes

\* C4 as stated: M.parse_token(T'), T' one character away from a token T
\* minted by M, raises MalformedTokenError or InvalidSignatureError.
C4_TamperRejected ==
    TamperedParsed =>
        call.result.kind \in {"MalformedTokenError", "InvalidSignatureError"}

\* C4 as amended: M.parse_token(T') raises MalformedTokenError or
\* InvalidSignatureError unless T' decodes to the very bytes T decodes to, in
\* which case it does what M.parse_token(T) does at that time; it never
\* returns claims other than those minted in T.
C4_TamperDetected ==
    TamperedParsed =>
        /\ IF SameBytes
           THEN call.result
                    = parse_token(managers[tok.by], tok.orig, call.now, clock).result
           ELSE call.result.kind \in {"MalformedTokenError", "InvalidSignatureError"}
        /\ call.result.kind = "return" =>
               call.result.value
                   = make_token_data(managers[tok.by], tok.claims, tok.urandom3, tok.time)
        /\ call.result.kind \in {"return"} \cup TokenErrors

\* A character of the payload part was replaced by another of the alphabet,
\* and the signature no longer matched.
C4_Witness ==
    /\ TamperedParsed
    /\ tok.pos = 3
    /\ B64Val(tok.text[3]) >= 0
    /\ ~SameBytes
    /\ call.result = Raised("InvalidSignatureError")

\* The manager that is not m.
Other(m) == IF m = "M1" THEN "M2" ELSE "M1"

\* The two managers have different master secrets and the same hash function.
DifferentSecrets ==
    /\ \A m \in Managers : Constructed(m)
    /\ managers["M1"].secret /= managers["M2"].secret
    /\ managers["M1"].hashmod = managers["M2"].hashmod

\* The token the other manager makes of the claims of the token at hand,
\* at the same time and with the same random bytes.
OtherToken ==
    make_token(managers[Other(tok.by)], tok.claims, tok.urandom3, tok.time)

\* C5: of two managers with different master secrets and the same hash
\* function, each fails with a token validation error on the other's token,
\* and their tokens and derived secrets for the same claims differ.
C5_KeySeparation ==
    (DifferentSecrets /\ tok.kind = "minted") =>
        /\ (call.pc = "done" /\ call.token = tok.text /\ call.mgr = Other(tok.by)) =>
               call.result.kind \in TokenErrors
        /\ OtherToken /= tok.text
        /\ (derived.mgr = tok.by /\ derived.token = tok.text) =>
               /\ derived.result.kind = "return"
               /\ derived.result
                      /= get_derived_secret(managers[Other(tok.by)], OtherToken)
               /\ derived.result /= get_derived_secret(managers[Other(tok.by)], tok.text)

\* Manager M2, whose secret is not that of M1, has rejected a token of M1.
C5_Witness ==
    /\ DifferentSecrets
    /\ tok.kind = "minted" /\ tok.by = "M1"
    /\ call.pc = "done" /\ call.token = tok.text /\ call.mgr = "M2"
    /\ call.result = Raised("InvalidSignatureError")

\* C7: get_derived_secret either returns a derived secret or raises
\* MalformedTokenError, whatever the token; no other exception escapes.
C7_DerivedOrMalformed ==
    derived /= NoDerived => derived.result.kind \in {"return", "MalformedTokenError"}

\* The salt in what json.loads gave, or None.
SaltIn(obj) ==
    IF obj.ok /\ obj.val.t = "dict" /\ DictHas(obj.val, K_salt)
    THEN DictGet(obj.val, K_salt) ELSE None

SaltInText(text) == IF text.ok THEN SaltIn(json_loads(text.text)) ELSE None

SaltInBytes(self, decoded) ==
    IF decoded.ok
    THEN SaltInText(utf8_decode(DropLast(decoded.bytes, self.hashmod_digest_size),
                                1, <<>>))
    ELSE None

\* The salt of the JSON object that is the payload of the token for manager
\* self, or None.
SaltOf(self, token) == SaltInBytes(self, decode_token_bytes(token))

IsAsciiStr(x) == x.t = "str" /\ IsAscii(x.v)

\* C8 as stated: get_derived_secret returns a derived secret for every token
\* whose decoded payload is a JSON object with a string salt.
C8_StringSaltReturns ==
    (derived /= NoDerived /\ SaltOf(managers[derived.mgr], derived.token).t = "str") =>
        derived.result.kind = "return"

\* C8 as amended: get_derived_secret returns a derived secret for every token
\* whose decoded payload is a JSON object with a salt that is a string of
\* ASCII characters, whatever parse_token makes of the token's signature and
\* expiry, and returns the same value for a token before and after it expires.
C8_NoSignatureNoExpiryCheck ==
    derived /= NoDerived =>
        /\ IsAsciiStr(SaltOf(managers[derived.mgr], derived.token)) =>
               derived.result.kind = "return"
        /\ (seen.mgr = derived.mgr /\ seen.token = derived.token) =>
               derived.result = seen.result

\* The derived secret of a token was asked for when parse_token returns the
\* token's claims and again when parse_token raises ExpiredTokenError, and
\* was the same.
C8_Witness ==
    /\ derived.result.kind = "return"
    /\ seen.mgr = derived.mgr /\ seen.token = derived.token
    /\ seen.result = derived.result
    /\ parse_token(managers[seen.mgr], seen.token, None, seen.time).result.kind
           = "return"
    /\ parse_token(managers[derived.mgr], derived.token, None, derived.time).result.kind
           = "ExpiredTokenError"

\* C9: for a fixed manager the derived secret is a function of the token text
\* alone, whatever the time and the calls before, and two distinct token
\* texts have distinct derived secrets, also when their salts are equal.
C9_DerivedSecretPerToken ==
    (derived /= NoDerived /\ seen /= NoDerived /\ seen.mgr = derived.mgr) =>
        /\ seen.token = derived.token => derived.result = seen.result
        /\ seen.token /= derived.token => derived.result /= seen.result

\* Two distinct tokens with the same salt gave two derived secrets.
C9_Witness ==
    /\ derived.result.kind = "return" /\ seen.result.kind = "return"
    /\ seen.mgr = derived.mgr
    /\ seen.token /= derived.token
    /\ SaltOf(managers[seen.mgr], seen.token) = SaltOf(managers[derived.mgr], derived.token)
    /\ derived.result /= seen.result

\* C10: strings_differ(a, b) is True iff the byte sequences a and b are
\* unequal, empty and different-length sequences included; the sum of the
\* per-byte XORs is zero exactly when every byte pair is equal.
C10_StringsDiffer ==
    cmp.done =>
        /\ cmp.result <=> cmp.string1 /= cmp.string2
        /\ Len(cmp.string1) = Len(cmp.string2) =>
               (invalid_bits(cmp.string1, cmp.string2, 1) = 0
                    <=> \A i \in 1..Len(cmp.string1) : cmp.string1[i] = cmp.string2[i])

\* A string was compared with a longer one that starts with it, and the two
\* were found to differ.
C10_Witness ==
    /\ cmp.done
    /\ Len(cmp.string1) = 1 /\ Len(cmp.string2) = 2
    /\ cmp.string2[1] = cmp.string1[1]
    /\ cmp.result

(***************************************************************************)
(* HKDF and RFC 5869.                                                      *)
(***************************************************************************)
\* The number of blocks of an output of L bytes with blocks of d bytes.
BlocksOf(L, d) == IF L % d = 0 THEN L \div d ELSE L \div d + 1

\* okm is T(1) || ... || T(N) cut to L bytes: its i-th block is the start of
\* HMAC(PRK, T(i-1) || info || byte(i)), T(i-1) being its block before, and
\* T(0) empty.
IsOKM(okm, PRK, info, L, hashmod) ==
    LET d == digest_size(hashmod)
    IN  /\ Len(okm) = L
        /\ \A i \in 1..BlocksOf(L, d) :
              LET prev == IF i = 1 THEN <<>> ELSE SubSeq(okm, (i - 2) * d + 1, (i - 1) * d)
                  last == IF i * d < L THEN i * d ELSE L
                  T    == hmac_digest(PRK, prev \o info \o <<i>>, hashmod)
              IN  SubSeq(okm, (i - 1) * d + 1, last) = SubSeq(T, 1, last - (i - 1) * d)

\* The PRK of RFC 5869: HMAC(salt, secret), an absent salt being zero bytes.
PRKOf(k) ==
    hmac_digest(IF k.salt = None THEN [j \in 1..digest_size(k.hashmod) |-> 0] ELSE k.salt.v,
                k.secret, k.hashmod)

\* C11: HKDF(secret, salt, info, L) is the first L bytes of T(1) || ... || T(N)
\* of RFC 5869 under PRK = HMAC(salt, secret), N = ceil(L / digest size), of
\* length exactly L for every 0 <= L <= 255 * digest size; when N would
\* exceed 255 the call fails with an assertion and returns no output.
C11_HKDF_RFC5869 ==
    kdf.done =>
        IF kdf.size <= 255 * digest_size(kdf.hashmod)
        THEN /\ kdf.result.err = ""
             /\ IsOKM(kdf.result.bytes, PRKOf(kdf), kdf.info, kdf.size, kdf.hashmod)
        ELSE kdf.result = AssertionError

\* An output of 255 blocks, the last one cut, under an absent salt.
C11_Witness ==
    /\ kdf.done
    /\ kdf.salt = None
    /\ kdf.info /= <<>>
    /\ kdf.size = 255 * digest_size(kdf.hashmod) - 1
    /\ kdf.result.err = ""
    /\ Len(kdf.result.bytes) = kdf.size

(***************************************************************************)
(* The manager is immutable.                                               *)
(***************************************************************************)
\* C12: once a manager is constructed, no make_token, parse_token or
\* get_derived_secret call, successful or failing, in any interleaving,
\* changes its secret, signing key, hash function, digest size or timeout,
\* nor the module's default secret.
C12_ManagerImmutable ==
    [][/\ DEFAULT_SECRET' = DEFAULT_SECRET
       /\ \A m \in Managers : Constructed(m) => managers'[m] = managers[m]]_vars

\* Manager M1 has minted a token, M2 has refused it in parse_token, M1 has
\* failed in get_derived_secret on it between the steps of that call, time
\* has passed, and M1 is as "one", 1, "md5" made it.
C12_Witness ==
    /\ tok.kind = "minted" /\ tok.by = "M1"
    /\ call.pc = "done" /\ call.mgr = "M2" /\ call.result.kind = "InvalidSignatureError"
    /\ derived.mgr = "M1" /\ derived.result.kind = "AttributeError"
    /\ clock > tok.time
    /\ managers["M1"] =
          TokenManager_init(DEFAULT_SECRET, Args.one[1], Args.one[2], Args.one[3])

(***************************************************************************)
(* The errors of parse_token.                                              *)
(***************************************************************************)
\* C14: for every token string, also one that make_token signed over claims
\* with an expires of the caller's own, parse_token returns the claims or
\* raises MalformedTokenError, InvalidSignatureError or ExpiredTokenError;
\* no other exception type escapes.
C14_ParseTotal ==
    call.pc = "done" => call.result.kind \in {"return"} \cup TokenErrors

(***************************************************************************)
(* The Secrets store and its file.                                         *)
(***************************************************************************)
\* C13: a store built by add calls, several for one node, at equal or at
\* increasing timestamps, is saved and the file loaded into a new store:
\* get(node) on the new store returns, for every node, the secrets get(node)
\* returned on the original store, in the same order.
C13_SaveLoadRoundTrip ==
    /\ files.saved \in {"", "ok"}
    /\ files.loaded \in {"", "ok"}
    /\ files.loaded = "ok" =>
          \A node \in Nodes :
              Secrets_get(stores.secrets2, node) = Secrets_get(stores.secrets, node)

=============================================================================
